---- MODULE Spec2Model ----
(***************************************************************************)
(* State-machine model of the askai setup wizard (src/config_setup.py):    *)
(* the credential step, the model-selection step, the six numeric steps    *)
(* and the two persistence operations of SetupHelper.                      *)
(*                                                                         *)
(* Text is modelled as sequences of one-character strings, so that         *)
(* int(), float(), str(), repr() and the YAML scalar rules are computed    *)
(* character by character.  A Python float is modelled as the exact        *)
(* decimal m / 10^e (normalised, no trailing zero in the fraction).        *)
(***************************************************************************)
EXTENDS Integers, Sequences, FiniteSets, TLC

VARIABLES
    pc,           \* the step the run is in (it stays there when the run ends)
    run,          \* "running", "aborted" (exit(1)), "crashed", "returned"
    max_tries,    \* the max_tries argument of the step methods
    num_tries,    \* num_tries / num_of_tries / 1 + the for-loop index
    key,          \* local `key` of user_input_api_key (last key entered)
    input_value,  \* local `input_value` / `model` (last line read)
    probe,        \* outcome of the last remote credential check
    self,         \* the SetupHelper instance
    key_file,     \* content of API_KEY_PATH (None: no such file)
    config_file,  \* content of CONFIG_PATH (None: no such file)
    out,          \* what the last step echoed to the terminal
    exit_status,  \* process exit status (-1 while the process runs)
    evald,        \* predicates evaluated on the last line read
    reads,        \* lines read so far by the step that acted last
    probes,       \* remote checks made so far by the step that acted last
    written,      \* files written during this run
    last          \* the step that acted last

vars == <<pc, run, max_tries, num_tries, key, input_value, probe, self,
          key_file, config_file, out, exit_status, evald, reads, probes,
          written, last>>

----------------------------------------------------------------------------
\* Bounds of the model.

\* largest max_tries argument explored (the code's default is 3)
MaxTries == 3
\* longest input line explored
MaxLen == 3

----------------------------------------------------------------------------
\* Values: Python objects held by the fields of SetupHelper.

None == [t |-> "none"]
PyInt(n) == [t |-> "int", v |-> n]
PyFloat(m, e) == [t |-> "float", m |-> m, e |-> e]
PyStr(s) == [t |-> "str", s |-> s]

RECURSIVE Pow10(_)
Pow10(e) == IF e = 0 THEN 1 ELSE 10 * Pow10(e - 1)

\* the decimal m / 10^e without trailing zeros in its fraction
RECURSIVE Normal(_, _)
Normal(m, e) ==
    IF e > 0 /\ m % 10 = 0 THEN Normal(m \div 10, e - 1) ELSE PyFloat(m, e)

----------------------------------------------------------------------------
\* Characters and text.

Digits == {"0", "1", "2", "3", "4", "5", "6", "7", "8", "9"}

DigitVal(c) ==
    CASE c = "0" -> 0 [] c = "1" -> 1 [] c = "2" -> 2 [] c = "3" -> 3
      [] c = "4" -> 4 [] c = "5" -> 5 [] c = "6" -> 6 [] c = "7" -> 7
      [] c = "8" -> 8 [] c = "9" -> 9

DigitChar(d) ==
    CASE d = 0 -> "0" [] d = 1 -> "1" [] d = 2 -> "2" [] d = 3 -> "3"
      [] d = 4 -> "4" [] d = 5 -> "5" [] d = 6 -> "6" [] d = 7 -> "7"
      [] d = 8 -> "8" [] d = 9 -> "9"

AllDigits(s) == \A i \in 1..Len(s) : s[i] \in Digits

\* value of a digit string in the given base (0 for the empty string)
RECURSIVE DigitsVal(_, _)
DigitsVal(s, base) ==
    IF s = <<>> THEN 0
    ELSE base * DigitsVal(SubSeq(s, 1, Len(s) - 1), base) + DigitVal(s[Len(s)])

\* str.strip(): leading and trailing whitespace removed
RECURSIVE Strip(_)
Strip(s) ==
    IF s = <<>> THEN s
    ELSE IF Head(s) = " " THEN Strip(Tail(s))
    ELSE IF s[Len(s)] = " " THEN Strip(SubSeq(s, 1, Len(s) - 1))
    ELSE s

HasSign(s) == s # <<>> /\ Head(s) \in {"-", "+"}
Unsigned(s) == IF HasSign(s) THEN Tail(s) ELSE s
Sign(s) == IF s # <<>> /\ Head(s) = "-" THEN -1 ELSE 1

\* position of the first "." of s, 0 when there is none
RECURSIVE DotAt(_, _)
DotAt(s, i) ==
    IF i > Len(s) THEN 0 ELSE IF s[i] = "." THEN i ELSE DotAt(s, i + 1)

IntPart(s) == IF DotAt(s, 1) = 0 THEN s ELSE SubSeq(s, 1, DotAt(s, 1) - 1)
FracPart(s) == IF DotAt(s, 1) = 0 THEN <<>> ELSE SubSeq(s, DotAt(s, 1) + 1, Len(s))

----------------------------------------------------------------------------
\* Python's int(str), float(str), str(int) and repr(float).

\* int(x) raises ValueError unless x is, after strip(), an optional sign
\* followed by one or more decimal digits
IntLiteral(x) ==
    LET d == Unsigned(Strip(x)) IN d # <<>> /\ AllDigits(d)

int(x) == Sign(Strip(x)) * DigitsVal(Unsigned(Strip(x)), 10)

\* float(x) raises ValueError unless x is, after strip(), an optional sign
\* followed by digits with an optional fraction, or by a fraction alone
FloatLiteral(x) ==
    LET d == Unsigned(Strip(x)) IN
        /\ AllDigits(IntPart(d))
        /\ AllDigits(FracPart(d))
        /\ Len(IntPart(d)) + Len(FracPart(d)) > 0

float(x) ==
    LET d == Unsigned(Strip(x))
        e == Len(FracPart(d))
    IN Normal(Sign(Strip(x)) * (DigitsVal(IntPart(d), 10) * Pow10(e)
                                  + DigitsVal(FracPart(d), 10)), e)

RECURSIVE NatText(_)
NatText(n) ==
    IF n < 10 THEN <<DigitChar(n)>>
    ELSE NatText(n \div 10) \o <<DigitChar(n % 10)>>

\* n written with exactly w digits
RECURSIVE Padded(_, _)
Padded(n, w) ==
    IF w = 0 THEN <<>> ELSE Padded(n \div 10, w - 1) \o <<DigitChar(n % 10)>>

Abs(n) == IF n < 0 THEN -n ELSE n

str_int(n) == (IF n < 0 THEN <<"-">> ELSE <<>>) \o NatText(Abs(n))

repr_float(f) ==
    (IF f.m < 0 THEN <<"-">> ELSE <<>>)
    \o NatText(Abs(f.m) \div Pow10(f.e)) \o <<".">>
    \o (IF f.e = 0 THEN <<"0">> ELSE Padded(Abs(f.m) % Pow10(f.e), f.e))

\* str(v) as used by an f-string
str(v) ==
    CASE v.t = "int" -> str_int(v.v)
      [] v.t = "float" -> repr_float(v)
      [] v.t = "str" -> v.s
      [] v.t = "none" -> <<"N", "o", "n", "e">>

_is_int(x) == IntLiteral(x)

_is_float(x) == FloatLiteral(x)

----------------------------------------------------------------------------
\* Terminal output: click.echo(click.style(text + arg, fg)).

Msg(text, arg, fg) == [text |-> text, arg |-> arg, fg |-> fg]

Aborted == Msg("Too many invalid tries. Aborted!", <<>>, "red")
BlankLine == Msg("", <<>>, "")

----------------------------------------------------------------------------
\* class AvailableModels(Enum): members in definition order, auto() = 1..4.

AvailableModels ==
    << <<"T","E","X","T","_","A","D","A","_","0","0","1">>,
       <<"T","E","X","T","_","B","A","B","B","A","G","E","_","0","0","1">>,
       <<"T","E","X","T","_","C","U","R","I","E","_","0","0","1">>,
       <<"T","E","X","T","_","D","A","V","I","N","C","I","_","0","0","3">> >>

UpperCase ==
    <<"A","B","C","D","E","F","G","H","I","J","K","L","M",
      "N","O","P","Q","R","S","T","U","V","W","X","Y","Z">>
LowerCase ==
    <<"a","b","c","d","e","f","g","h","i","j","k","l","m",
      "n","o","p","q","r","s","t","u","v","w","x","y","z">>

\* str.lower() of one character
lower(c) ==
    IF \E i \in 1..26 : UpperCase[i] = c
    THEN LowerCase[CHOOSE i \in 1..26 : UpperCase[i] = c]
    ELSE c

\* name.replace("_", "-").lower()
ModelName(name) ==
    [i \in 1..Len(name) |-> lower(IF name[i] = "_" THEN "-" ELSE name[i])]

as_list == [i \in 1..Len(AvailableModels) |-> ModelName(AvailableModels[i])]

\* off by one: range(1, 4)
Mut_ModelOrdinals == 1..3

\* `int(model) not in range(1, 5)` negated: the ordinals the step accepts
ModelOrdinals == 1..4

----------------------------------------------------------------------------
\* Inputs.

\* input lines an operator may type, up to MaxLen characters
Lines ==
    { l \in { <<>>, <<"a">>, <<"0">>, <<"1">>, <<"4">>, <<"5">>,
              <<"-", "5">>, <<" ", "5">>,
              <<"1", ".", "5">>,
              <<"-", "1", ".", "0">>, <<" ", "4", " ", " ">> } : Len(l) <= MaxLen }

\* the lines typed at a step: those above and, at the temperature prompt,
\* the in-range fraction 0.7
LinesAt(step) ==
    Lines \cup (IF step = "temperature" THEN { <<"0", ".", "7">> } ELSE {})

\* keys an operator may enter at the hidden prompt
Keys == { <<"s", "k", "1">>, <<"s", "k", "2">> }

\* what openai.Completion.create does for a key: it returns, raises
\* AuthenticationError, or raises another openai error
Outcomes == {"valid", "AuthenticationError", "APIConnectionError"}

\* contents the two files may have before the run: the first run on a
\* machine finds neither, a later run finds both
OldKey == PyStr(<<"o", "l", "d">>)
OldConfig ==
    [t |-> "text", lines |-> << [key |-> "model", style |-> "plain", text |-> <<"x">>] >>]

PriorFiles == { <<None, None>>, <<OldKey, OldConfig>> }

----------------------------------------------------------------------------
\* The run: the order in which the steps are called.

Steps ==
    <<"intro", "api_key", "model", "num_answers", "max_tokens", "temperature",
      "top_p", "frequency_penalty", "presence_penalty",
      "save_api_key", "save_config", "end">>

NextStep(p) == Steps[(CHOOSE i \in 1..Len(Steps) : Steps[i] = p) + 1]

NumericSteps ==
    {"num_answers", "max_tokens", "temperature", "top_p",
     "frequency_penalty", "presence_penalty"}

\* SetupHelper.__init__
NewSetupHelper ==
    [_api_key |-> None, _model |-> None, _num_answers |-> None,
     _max_tokens |-> None, _temperature |-> None, _top_p |-> None,
     _frequency_penalty |-> None, _presence_penalty |-> None]

Init ==
    /\ pc = "intro"
    /\ run = "running"
    /\ max_tries \in 1..MaxTries
    /\ num_tries = 1
    /\ key = <<>>
    /\ input_value = <<>>
    /\ probe = "none"
    /\ self = NewSetupHelper
    /\ \E prior \in PriorFiles : key_file = prior[1] /\ config_file = prior[2]
    /\ out = <<>>
    /\ exit_status = -1
    /\ evald = {}
    /\ reads = 0
    /\ probes = 0
    /\ written = {}
    /\ last = "start"

\* no step acts once the process has ended
Running == run = "running"

print_logo ==
    /\ pc = "intro"
    /\ Running
    /\ last' = pc
    /\ pc' = NextStep(pc)
    /\ out' = <<Msg("~~~~~~~ Your simple terminal helper ~~~~~~~", <<>>, "")>>
    /\ UNCHANGED <<run, max_tries, num_tries, key, input_value, probe, self,
                   key_file, config_file, exit_status, evald, reads, probes,
                   written>>

----------------------------------------------------------------------------
\* Leaving a step.

\* the message is shown but exit(1) is missing: the method returns
Mut_Abort(shown) ==
    /\ out' = shown \o <<Aborted>>
    /\ pc' = NextStep(pc)
    /\ num_tries' = 1
    /\ UNCHANGED <<run, exit_status, self>>

\* exit(1) after the "Too many invalid tries" message
Abort(shown) ==
    /\ out' = shown \o <<Aborted>>
    /\ run' = "aborted"
    /\ exit_status' = 1
    /\ UNCHANGED <<pc, num_tries, self>>

\* the loop goes round: one more try is counted
Retry(shown) ==
    /\ out' = shown
    /\ num_tries' = num_tries + 1
    /\ UNCHANGED <<pc, run, self, exit_status>>

\* the counter is kept on the instance and never set back
Mut_Return(shown) ==
    /\ out' = shown
    /\ pc' = NextStep(pc)
    /\ num_tries' = num_tries
    /\ UNCHANGED <<run, exit_status>>

\* the step method returns to its caller, which calls the next one; the
\* counter is a local of the method and starts again there
Return(shown) ==
    /\ out' = shown
    /\ pc' = NextStep(pc)
    /\ num_tries' = 1
    /\ UNCHANGED <<run, exit_status>>

\* an exception nobody catches: traceback, the interpreter exits with 1
Raise(shown) ==
    /\ out' = shown \o <<Msg("Traceback (most recent call last):", <<>>, "")>>
    /\ run' = "crashed"
    /\ exit_status' = 1
    /\ UNCHANGED <<pc, num_tries, self>>

\* input() / getpass(): one more line read by this step
ReadLine == reads' = IF last = pc THEN reads + 1 ELSE 1

----------------------------------------------------------------------------
\* Credential step.

\* _is_valid_api_key returns True, returns False, or lets the error through
\* `return True` in the except branch as well
Mut_is_valid_api_key(outcome) == outcome \in {"valid", "AuthenticationError"}

_is_valid_api_key(outcome) == outcome = "valid"
Caught(outcome) == outcome = "AuthenticationError"

\* off by one: the comparison lets one more try through
Mut_TriesUsedUp == num_tries > max_tries

\* `if num_tries >= max_tries` of the two while loops
TriesUsedUp == num_tries >= max_tries

KeyIntro ==
    (IF key_file # None
     THEN <<Msg("NOTE: You've already added a key. This old key will be overwritten in this setup!\n", <<>>, "")>>
     ELSE <<>>)
    \o <<Msg("To use the CLI, please enter your OpenAI API key.", <<>>, "")>>

user_input_api_key ==
    /\ pc = "api_key"
    /\ Running
    /\ last' = pc
    /\ \E k \in Keys, outcome \in Outcomes :
        LET shown == IF num_tries = 1 THEN KeyIntro ELSE <<>> IN
        /\ key' = k
        /\ probe' = outcome
        /\ ReadLine
        /\ probes' = IF last = pc THEN probes + 1 ELSE 1
        /\ IF _is_valid_api_key(outcome)
           THEN /\ self' = [self EXCEPT !._api_key = PyStr(k)]
                /\ Return(shown)
           ELSE IF ~Caught(outcome)
           THEN Raise(shown)
           ELSE IF TriesUsedUp
           THEN Abort(shown)
           ELSE Retry(shown \o <<Msg("The API key is not valid.", <<>>, "red")>>)
    /\ UNCHANGED <<max_tries, input_value, key_file, config_file, evald, written>>

----------------------------------------------------------------------------
\* Model-selection step.

ModelMenu ==
    <<Msg("-> STEP - SET MODEL", <<>>, "")>>
    \o [i \in 1..Len(as_list) |-> Msg("   ) ", str_int(i) \o as_list[i], "")]

\* the negated condition of the while loop
ValidModel(model) == _is_int(model) /\ int(model) \in ModelOrdinals

\* an empty line takes the last model of the list as the default, the way
\* the numeric steps take theirs
Mut_user_input_model ==
    /\ pc = "model"
    /\ Running
    /\ last' = pc
    /\ \E model \in LinesAt(pc) :
        LET shown == IF num_tries = 1 THEN ModelMenu ELSE <<>>
            chosen == IF model = <<>> THEN <<"4">> ELSE model
        IN
        /\ input_value' = model
        /\ ReadLine
        /\ evald' = IF model = <<>> THEN {}
                    ELSE {"type"} \cup (IF _is_int(model) THEN {"range"} ELSE {})
        /\ IF ValidModel(chosen)
           THEN /\ self' = [self EXCEPT
                        !._model = PyStr(ModelName(AvailableModels[int(chosen)]))]
                /\ Return(shown \o <<Msg("Model chosen: ", self'._model.s, "green"),
                                     BlankLine>>)
           ELSE IF TriesUsedUp
           THEN Abort(shown)
           ELSE Retry(shown \o <<Msg("Choose value between 1 and 4.", <<>>, "red")>>)
    /\ UNCHANGED <<max_tries, key, probe, key_file, config_file, probes, written>>

user_input_model ==
    /\ pc = "model"
    /\ Running
    /\ last' = pc
    /\ \E model \in LinesAt(pc) :
        LET shown == IF num_tries = 1 THEN ModelMenu ELSE <<>> IN
        /\ input_value' = model
        /\ ReadLine
        /\ evald' = {"type"} \cup (IF _is_int(model) THEN {"range"} ELSE {})
        /\ IF ValidModel(model)
           THEN /\ self' = [self EXCEPT
                        !._model = PyStr(ModelName(AvailableModels[int(model)]))]
                /\ Return(shown \o <<Msg("Model chosen: ", self'._model.s, "green"),
                                     BlankLine>>)
           ELSE IF TriesUsedUp
           THEN Abort(shown)
           ELSE Retry(shown \o <<Msg("Choose value between 1 and 4.", <<>>, "red")>>)
    /\ UNCHANGED <<max_tries, key, probe, key_file, config_file, probes, written>>

----------------------------------------------------------------------------
\* Numeric steps.

\* off by one: range(max_tries + 1)
Mut_LastIteration == num_tries > max_tries

\* the for loop `for _ in range(max_tries)` has no iteration left
LastIteration == num_tries >= max_tries

\* `continue` after an error message; after the last iteration the code
\* falls out of the loop to the abort
Reject(message) ==
    IF LastIteration THEN Abort(<<message>>) ELSE Retry(<<message>>)

\* the number is echoed, not the line as typed: f"{int(input_value)}"
Mut_Accept(field, value, shown) ==
    /\ self' = [self EXCEPT ![field] = value]
    /\ Return(<<Msg("Value chosen: ", str(value), "green"), BlankLine>>)

\* the echo of the chosen value, and `return` to the assignment in the caller
Accept(field, value, shown) ==
    /\ self' = [self EXCEPT ![field] = value]
    /\ Return(<<Msg("Value chosen: ", shown, "green"), BlankLine>>)

\* the out-of-range text pasted into the wrong branch
Mut_NotAFloat == Msg("Input is not within allowed range.\n", <<>>, "")

\* the error messages of _user_input_integer and _user_input_float
NotAnInteger == Msg("Input is not an integer.\n", <<>>, "red")
IntegerOutOfRange == Msg("Input is not within allowed range.\n", <<>>, "red")
NotAFloat == Msg("Input is not a float.\n", <<>>, "")
FloatOutOfRange == Msg("Input is not within allowed range.\n", <<>>, "")

\* `predicate` is the lambda the calling method passes, a function here
_user_input_integer(field, default, predicate) ==
    /\ Running
    /\ last' = pc
    /\ \E line \in LinesAt(pc) :
        /\ input_value' = line
        /\ ReadLine
        /\ IF line = <<>>
           THEN /\ evald' = {}
                /\ Accept(field, PyInt(default), str(PyInt(default)))
           ELSE IF ~_is_int(line)
           THEN /\ evald' = {"type"}
                /\ Reject(NotAnInteger)
           ELSE IF ~predicate[int(line)]
           THEN /\ evald' = {"type", "range"}
                /\ Reject(IntegerOutOfRange)
           ELSE /\ evald' = {"type", "range"}
                /\ Accept(field, PyInt(int(line)), line)
    /\ UNCHANGED <<max_tries, key, probe, key_file, config_file, probes, written>>

_user_input_float(field, default, predicate) ==
    /\ Running
    /\ last' = pc
    /\ \E line \in LinesAt(pc) :
        /\ input_value' = line
        /\ ReadLine
        /\ IF line = <<>>
           THEN /\ evald' = {}
                /\ Accept(field, default, str(default))
           ELSE IF ~_is_float(line)
           THEN /\ evald' = {"type"}
                /\ Reject(NotAFloat)
           ELSE IF ~predicate[float(line)]
           THEN /\ evald' = {"type", "range"}
                /\ Reject(FloatOutOfRange)
           ELSE /\ evald' = {"type", "range"}
                /\ Accept(field, float(line), line)
    /\ UNCHANGED <<max_tries, key, probe, key_file, config_file, probes, written>>

\* the lambdas the six methods pass:
\* x > 0, 0.0 <= x <= 1.0 and -2.0 <= x <= 2.0
Floats == [t : {"float"}, m : Int, e : Nat]
\* zero let through: x >= 0
Mut_Positive == [x \in Int |-> x >= 0]
Positive == [x \in Int |-> x > 0]
\* wrong upper limit: 0.0 <= x <= 2.0
Mut_UnitInterval == [x \in Floats |-> 0 <= x.m /\ x.m <= 2 * Pow10(x.e)]
UnitInterval == [x \in Floats |-> 0 <= x.m /\ x.m <= Pow10(x.e)]
PenaltyInterval ==
    [x \in Floats |-> -2 * Pow10(x.e) <= x.m /\ x.m <= 2 * Pow10(x.e)]

user_input_num_answers ==
    /\ pc = "num_answers"
    /\ _user_input_integer("_num_answers", 1, Positive)

\* wrong default: 256 for 300
Mut_user_input_max_token ==
    /\ pc = "max_tokens"
    /\ _user_input_integer("_max_tokens", 256, Positive)

user_input_max_token ==
    /\ pc = "max_tokens"
    /\ _user_input_integer("_max_tokens", 300, Positive)

user_input_temperature ==
    /\ pc = "temperature"
    /\ _user_input_float("_temperature", PyFloat(4, 1), UnitInterval)

user_input_top_p ==
    /\ pc = "top_p"
    /\ _user_input_float("_top_p", PyFloat(0, 0), UnitInterval)

user_input_frequency_penalty ==
    /\ pc = "frequency_penalty"
    /\ _user_input_float("_frequency_penalty", PyFloat(0, 0), PenaltyInterval)

user_input_presence_penalty ==
    /\ pc = "presence_penalty"
    /\ _user_input_float("_presence_penalty", PyFloat(0, 0), PenaltyInterval)

----------------------------------------------------------------------------
\* YAML: yaml.dump writes a block mapping, one "key: scalar" line per key,
\* keys sorted; a plain scalar is read back through the implicit resolvers.

\* tag:yaml.org,2002:null
YamlNull(t) == t \in { <<"n","u","l","l">>, <<"~">>, <<>> }

\* tag:yaml.org,2002:int, decimal ("0" or no leading zero) and octal forms
YamlInt(t) ==
    LET d == Unsigned(t) IN
        /\ d # <<>>
        /\ AllDigits(d)
        /\ Head(d) = "0" /\ Len(d) > 1 => \A i \in 1..Len(d) : DigitVal(d[i]) < 8

\* tag:yaml.org,2002:float: digits "." digits, signed, or "." digits
YamlFloat(t) ==
    /\ DotAt(t, 1) > 0
    /\ \/ LET d == Unsigned(t) IN
            /\ IntPart(d) # <<>>
            /\ AllDigits(IntPart(d))
            /\ AllDigits(FracPart(d))
       \/ /\ IntPart(t) = <<>>
          /\ FracPart(t) # <<>>
          /\ AllDigits(FracPart(t))

construct_yaml_int(t) ==
    LET d == Unsigned(t) IN
        PyInt(Sign(t) * DigitsVal(d, IF Head(d) = "0" THEN 8 ELSE 10))

\* the value a plain scalar resolves to
Resolve(t) ==
    IF YamlNull(t) THEN None
    ELSE IF YamlInt(t) THEN construct_yaml_int(t)
    ELSE IF YamlFloat(t) THEN float(t)
    ELSE PyStr(t)

\* the scalar yaml.dump writes for a value: a string that a resolver would
\* read as something else is written in quotes
represent(v) ==
    CASE v.t = "none" -> [style |-> "plain", text |-> <<"n","u","l","l">>]
      [] v.t = "int" -> [style |-> "plain", text |-> str_int(v.v)]
      [] v.t = "float" -> [style |-> "plain", text |-> repr_float(v)]
      [] v.t = "str" ->
            [style |-> IF Resolve(v.s) = PyStr(v.s) THEN "plain" ELSE "'",
             text |-> v.s]

\* the keys of the config dict of save_config, in yaml.dump's sorted order
SortedKeys ==
    <<"frequency_penalty", "max_tokens", "model", "num_answers",
      "presence_penalty", "temperature", "top_p">>

yaml_dump(config) ==
    [i \in 1..Len(SortedKeys) |->
        [key |-> SortedKeys[i],
         style |-> represent(config[SortedKeys[i]]).style,
         text |-> represent(config[SortedKeys[i]]).text]]

\* reading the document back: the mapping from each key to its value
yaml_load(doc) ==
    [k \in {doc[i].key : i \in 1..Len(doc)} |->
        LET line == doc[CHOOSE i \in 1..Len(doc) : doc[i].key = k] IN
            IF line.style = "plain" THEN Resolve(line.text) ELSE PyStr(line.text)]

----------------------------------------------------------------------------
\* Persistence.

\* the text is added at the end of what the file held
Mut_write_text(old, data) ==
    IF old = None THEN data ELSE PyStr(old.s \o data.s)

\* Path.write_text(data): the file is opened for writing, which empties
\* it, and holds the text afterwards
write_text(old, data) == data

\* opened with "a": the lines the file held stay
Mut_open_w(old) == IF old = None THEN <<>> ELSE old.lines

\* open(CONFIG_PATH, "w"): the lines the file holds once it is opened
open_w(old) == <<>>

save_api_key ==
    /\ pc = "save_api_key"
    /\ Running
    /\ last' = pc
    /\ key_file' = write_text(key_file, self._api_key)
    /\ written' = written \cup {"key"}
    /\ out' = <<Msg("Your API key has been successfully added!", <<>>, "green")>>
    /\ pc' = NextStep(pc)
    /\ reads' = 0
    /\ probes' = 0
    /\ UNCHANGED <<run, max_tries, num_tries, key, input_value, probe, self,
                   config_file, exit_status, evald>>

\* a field pasted under the wrong key
Mut_ConfigDict ==
    [model |-> self._model,
     num_answers |-> self._num_answers,
     max_tokens |-> self._num_answers,
     temperature |-> self._temperature,
     top_p |-> self._top_p,
     frequency_penalty |-> self._frequency_penalty,
     presence_penalty |-> self._presence_penalty]

\* the dict literal of save_config
ConfigDict ==
    [model |-> self._model,
     num_answers |-> self._num_answers,
     max_tokens |-> self._max_tokens,
     temperature |-> self._temperature,
     top_p |-> self._top_p,
     frequency_penalty |-> self._frequency_penalty,
     presence_penalty |-> self._presence_penalty]

save_config ==
    /\ pc = "save_config"
    /\ Running
    /\ last' = pc
    /\ config_file' =
          [t |-> "text", lines |-> open_w(config_file) \o yaml_dump(ConfigDict)]
    /\ written' = written \cup {"config"}
    /\ out' = <<Msg("Config saved successfully!", <<>>, "green")>>
    /\ pc' = NextStep(pc)
    /\ reads' = 0
    /\ probes' = 0
    /\ UNCHANGED <<run, max_tries, num_tries, key, input_value, probe, self,
                   key_file, exit_status, evald>>

\* the command returns: the process ends with status 0
Finish ==
    /\ pc = "end"
    /\ Running
    /\ last' = pc
    /\ run' = "returned"
    /\ exit_status' = 0
    /\ UNCHANGED <<pc, max_tries, num_tries, key, input_value, probe, self,
                   key_file, config_file, out, evald, reads, probes, written>>

----------------------------------------------------------------------------

Next ==
    \/ print_logo
    \/ user_input_api_key
    \/ user_input_model
    \/ user_input_num_answers
    \/ user_input_max_token
    \/ user_input_temperature
    \/ user_input_top_p
    \/ user_input_frequency_penalty
    \/ user_input_presence_penalty
    \/ save_api_key
    \/ save_config
    \/ Finish

Spec == Init /\ [][Next]_vars

----------------------------------------------------------------------------
\* Vocabulary of the properties.

\* lines / remote checks the step at pc has consumed so far, all of them
\* refused (an accepted one moves pc on)
ReadsHere == IF last = pc THEN reads ELSE 0
ProbesHere == IF last = pc THEN probes ELSE 0

\* the field a numeric step sets
FieldOf(step) ==
    CASE step = "num_answers" -> "_num_answers"
      [] step = "max_tokens" -> "_max_tokens"
      [] step = "temperature" -> "_temperature"
      [] step = "top_p" -> "_top_p"
      [] step = "frequency_penalty" -> "_frequency_penalty"
      [] step = "presence_penalty" -> "_presence_penalty"

\* the documented defaults and their echoed text
DocumentedDefault(step) ==
    CASE step = "num_answers" -> PyInt(1)
      [] step = "max_tokens" -> PyInt(300)
      [] step = "temperature" -> PyFloat(4, 1)
      [] step \in {"top_p", "frequency_penalty", "presence_penalty"} -> PyFloat(0, 0)

DocumentedDefaultText(step) ==
    CASE step = "num_answers" -> <<"1">>
      [] step = "max_tokens" -> <<"3", "0", "0">>
      [] step = "temperature" -> <<"0", ".", "4">>
      [] step \in {"top_p", "frequency_penalty", "presence_penalty"} -> <<"0", ".", "0">>

IntegerSteps == {"num_answers", "max_tokens"}

\* the line is a number of the step's type
ParsesFor(step, line) ==
    IF step \in IntegerSteps THEN _is_int(line) ELSE _is_float(line)

\* the number a line denotes lies in the documented range of the step
\* (a line that is no number at all lies in no range)
InDocumentedRange(step, line) ==
    /\ _is_float(line)
    /\ LET x == float(line) IN
        CASE step \in IntegerSteps -> x.m > 0
          [] step \in {"temperature", "top_p"} -> 0 <= x.m /\ x.m <= Pow10(x.e)
          [] step \in {"frequency_penalty", "presence_penalty"} ->
                -2 * Pow10(x.e) <= x.m /\ x.m <= 2 * Pow10(x.e)

\* the last action refused its line: same step, nothing stored
Refused == pc' = pc /\ self' = self /\ (num_tries' = num_tries + 1 \/ run' = "aborted")

AllFieldsSet == \A f \in DOMAIN self : self[f] # None

FixedModelList ==
    << <<"t","e","x","t","-","a","d","a","-","0","0","1">>,
       <<"t","e","x","t","-","b","a","b","b","a","g","e","-","0","0","1">>,
       <<"t","e","x","t","-","c","u","r","i","e","-","0","0","1">>,
       <<"t","e","x","t","-","d","a","v","i","n","c","i","-","0","0","3">> >>

----------------------------------------------------------------------------
\* C1: in each of the six numeric steps, the run has been refused max_tries
\* lines in a row exactly when it has ended by exit(1); it then has exit
\* status 1 and the configuration file has not been written.
C1_NumericExhaustionAborts ==
    pc \in NumericSteps =>
        /\ (ReadsHere = max_tries) <=> (run = "aborted")
        /\ run = "aborted" =>
              /\ exit_status = 1
              /\ "config" \notin written
              /\ <<key_file, config_file>> \in PriorFiles

C1_Witness ==
    /\ pc = "presence_penalty"
    /\ run = "aborted"
    /\ max_tries = 3
    /\ reads = 3
    /\ exit_status = 1

\* C2: a run ended by retry exhaustion has written neither file, whatever
\* it had accepted before; a file is written only once all eight input
\* steps have stored their value.
C2_AllOrNothing ==
    /\ run = "aborted" =>
          /\ written = {}
          /\ <<key_file, config_file>> \in PriorFiles
    /\ written # {} => AllFieldsSet /\ pc \in {"save_config", "end"}
    /\ written = {} => <<key_file, config_file>> \in PriorFiles

C2_Witness ==
    /\ run = "aborted"
    /\ pc = "presence_penalty"
    /\ self._api_key # None
    /\ self._frequency_penalty # None
    /\ written = {}
    /\ key_file = OldKey

\* C3: in the credential step, max_tries authentication failures in a row
\* end the run with exit status 1; the in-memory credential is not set
\* while the step runs, and the credential file is neither created nor
\* changed.
C3_CredentialExhaustionAborts ==
    pc = "api_key" =>
        /\ self._api_key = None
        /\ "key" \notin written
        /\ key_file \in {None, OldKey}
        /\ (probe = "AuthenticationError" /\ ProbesHere = max_tries) =>
              run = "aborted" /\ exit_status = 1
        /\ run = "aborted" => ProbesHere = max_tries

C3_Witness ==
    /\ pc = "api_key"
    /\ run = "aborted"
    /\ max_tries = 3
    /\ probes = 3
    /\ probe = "AuthenticationError"
    /\ key_file = None
    /\ exit_status = 1

\* C4: in a numeric step an empty line, on whatever attempt, stores exactly
\* the documented default, returns from the step, evaluates neither
\* predicate and shows the chosen value and no error.
C4_EmptyLineYieldsDefault ==
    [][ (pc \in NumericSteps /\ Running /\ input_value' = <<>>) =>
            /\ self' = [self EXCEPT ![FieldOf(pc)] = DocumentedDefault(pc)]
            /\ pc' = NextStep(pc)
            /\ run' = "running"
            /\ evald' = {}
            /\ out' = <<Msg("Value chosen: ", DocumentedDefaultText(pc), "green"),
                        BlankLine>> ]_vars

C4_Witness ==
    /\ pc = "temperature"
    /\ input_value = <<>>
    /\ reads = 3
    /\ self._max_tokens = PyInt(300)
    /\ evald = {}

\* C5: in a numeric step a line whose number lies outside the documented
\* range of the field is refused, and no field of the in-memory
\* configuration changes.
C5_OutOfRangeLeavesConfiguration ==
    [][ (pc \in NumericSteps /\ Running /\ vars' # vars
         /\ input_value' # <<>> /\ ~InDocumentedRange(pc, input_value')) =>
            /\ Refused
            /\ self' = self
            /\ Len(out') >= 1
            /\ out'[1] \in {NotAnInteger, NotAFloat, IntegerOutOfRange, FloatOutOfRange} ]_vars

C5_Witness ==
    /\ pc = "temperature"
    /\ Running
    /\ input_value = <<"1", ".", "5">>
    /\ num_tries = 2
    /\ self._temperature = None
    /\ self._max_tokens # None
    /\ out = <<FloatOutOfRange>>

\* C6: the model step accepts a line exactly when it is an integer between
\* 1 and 4, and then stores the identifier at that place of the fixed
\* list; any other line is one invalid try, and max_tries invalid tries in
\* a row end the run with exit status 1.
C6_ModelSelection ==
    /\ [](pc = "model" =>
            /\ (ReadsHere = max_tries) <=> (run = "aborted")
            /\ run = "aborted" => exit_status = 1)
    /\ [][ (pc = "model" /\ Running /\ vars' # vars) =>
            IF _is_int(input_value') /\ int(input_value') \in 1..4
            THEN /\ self' = [self EXCEPT
                        !._model = PyStr(FixedModelList[int(input_value')])]
                 /\ pc' = "num_answers"
                 /\ run' = "running"
            ELSE Refused ]_vars

C6_Witness ==
    /\ pc = "num_answers"
    /\ input_value = <<"4">>
    /\ reads = 2
    /\ self._model = PyStr(FixedModelList[4])

\* C7: no failure leaves the wizard as an unhandled exception.
C7_NoUnhandledException == run # "crashed"

\* C8: the run ends with exit status 1 exactly when a step ran out of
\* tries, and with exit status 0 exactly when every step succeeded and
\* both files were written.
C8_ExitStatus ==
    /\ exit_status = 1 <=> run = "aborted"
    /\ exit_status = 0 <=>
          (run = "returned" /\ AllFieldsSet /\ written = {"key", "config"})

\* C9: in a numeric step a refused non-empty line that is no number of
\* the step's type gets the wrong-type message and only the type
\* predicate is evaluated; one that is a number outside the range gets
\* the out-of-range message.
C9_ErrorMessageTellsKind ==
    [][ (pc \in NumericSteps /\ Running /\ vars' # vars /\ input_value' # <<>>) =>
            IF ~ParsesFor(pc, input_value')
            THEN /\ Refused
                 /\ out'[1].text = (IF pc \in IntegerSteps
                                    THEN "Input is not an integer.\n"
                                    ELSE "Input is not a float.\n")
                 /\ evald' = {"type"}
            ELSE IF ~InDocumentedRange(pc, input_value')
            THEN /\ Refused
                 /\ out'[1].text = "Input is not within allowed range.\n"
                 /\ evald' = {"type", "range"}
            ELSE out'[1].text = "Value chosen: " ]_vars

C9_Witness ==
    /\ pc = "temperature"
    /\ Running
    /\ input_value = <<"a">>
    /\ out = <<NotAFloat>>
    /\ num_tries = 3
    /\ evald = {"type"}

\* C10: the document save_config writes, read back, is a record of exactly
\* the seven keys whose values are the in-memory ones; so is the dump of
\* the in-memory configuration in every state.
SevenKeys ==
    {"model", "num_answers", "max_tokens", "temperature", "top_p",
     "frequency_penalty", "presence_penalty"}

SameAsMemory(r) ==
    /\ DOMAIN r = SevenKeys
    /\ r.model = self._model
    /\ r.num_answers = self._num_answers
    /\ r.max_tokens = self._max_tokens
    /\ r.temperature = self._temperature
    /\ r.top_p = self._top_p
    /\ r.frequency_penalty = self._frequency_penalty
    /\ r.presence_penalty = self._presence_penalty

C10_ConfigRoundTrip ==
    /\ SameAsMemory(yaml_load(yaml_dump(ConfigDict)))
    /\ "config" \in written => SameAsMemory(yaml_load(config_file.lines))

C10_Witness ==
    /\ "config" \in written
    /\ self._model = PyStr(FixedModelList[4])
    /\ self._num_answers = PyInt(1)
    /\ self._max_tokens = PyInt(300)
    /\ self._temperature = PyFloat(4, 1)
    /\ self._top_p = PyFloat(0, 0)
    /\ self._frequency_penalty = PyFloat(0, 0)
    /\ self._presence_penalty = PyFloat(0, 0)
    /\ yaml_load(config_file.lines).temperature = PyFloat(4, 1)

\* C11: whatever either file held before, after save_api_key the credential
\* file holds exactly the in-memory credential and after save_config the
\* configuration file holds exactly the dump of the in-memory
\* configuration, with nothing of the earlier content; and writing the same
\* in-memory state once more would leave each file as it is.
C11_OverwritingAndIdempotent ==
    /\ []( /\ "key" \in written =>
               /\ key_file = self._api_key
               /\ write_text(key_file, self._api_key) = key_file
           /\ "config" \in written =>
               /\ config_file = [t |-> "text", lines |-> yaml_dump(ConfigDict)]
               /\ open_w(config_file) \o yaml_dump(ConfigDict) = config_file.lines )
    /\ [][ /\ (pc = "save_api_key" /\ pc' # pc) =>
               key_file' = self._api_key /\ config_file' = config_file
           /\ (pc = "save_config" /\ pc' # pc) =>
               /\ config_file'.lines = yaml_dump(ConfigDict)
               /\ key_file' = key_file ]_vars

\* the credential file is rewritten while the old configuration file is
\* still there
C11_Witness ==
    /\ pc = "save_config"
    /\ "key" \in written
    /\ key_file = PyStr(<<"s", "k", "2">>)
    /\ config_file = OldConfig

\* C12 (as amended): in every input step a valid input on attempt k, for
\* any 1 <= k <= max_tries, after k-1 refused ones is accepted: the run goes
\* on to the next step and the stored value is that input's value.  The
\* model step echoes the chosen identifier and a numeric step echoes
\* "Value chosen: " and the line as typed; the credential step echoes
\* nothing of the key.
InputSteps == {"api_key", "model"} \cup NumericSteps

\* some message shown carries the text
Echoed(shown, text) == \E i \in 1..Len(shown) : shown[i].arg = text

\* the value a numeric step stores for a line
ValueFor(step, line) ==
    IF step \in IntegerSteps THEN PyInt(int(line)) ELSE float(line)

GoesOn == pc' = NextStep(pc) /\ run' = "running"

\* what a step of the run does with a valid input; keyEchoed says whether
\* the credential step shows the accepted key
AcceptsValid(keyEchoed) ==
    /\ (pc = "api_key" /\ Running /\ probe' = "valid") =>
          /\ GoesOn
          /\ self' = [self EXCEPT !._api_key = PyStr(key')]
          /\ Echoed(out', key') = keyEchoed
    /\ (pc = "model" /\ Running /\ vars' # vars
         /\ _is_int(input_value') /\ int(input_value') \in 1..4) =>
          /\ GoesOn
          /\ self' = [self EXCEPT
                  !._model = PyStr(FixedModelList[int(input_value')])]
          /\ Echoed(out', FixedModelList[int(input_value')])
    /\ (pc \in NumericSteps /\ Running /\ vars' # vars
         /\ input_value' # <<>>
         /\ ParsesFor(pc, input_value') /\ InDocumentedRange(pc, input_value')) =>
          /\ GoesOn
          /\ self' = [self EXCEPT ![FieldOf(pc)] = ValueFor(pc, input_value')]
          /\ out' = <<Msg("Value chosen: ", input_value', "green"), BlankLine>>

\* every attempt up to the max_tries-th is there to be answered
AttemptInBounds ==
    (Running /\ pc \in InputSteps) => num_tries \in 1..max_tries

C12_ValidInputAccepted ==
    []AttemptInBounds /\ [][AcceptsValid(FALSE)]_vars

\* 1.5 refused, then 0.7 accepted on the second and last attempt
C12_Witness ==
    /\ pc = "top_p"
    /\ Running
    /\ max_tries = 2
    /\ reads = 2
    /\ input_value = <<"0", ".", "7">>
    /\ self._temperature = PyFloat(7, 1)
    /\ out = <<Msg("Value chosen: ", <<"0", ".", "7">>, "green"), BlankLine>>

\* C12 as stated: the accepted value is echoed back in every input step,
\* the credential step included.
C12_EchoedInEveryStep ==
    []AttemptInBounds /\ [][AcceptsValid(TRUE)]_vars

\* C13: the retry counter is per step.  While an input step runs, the
\* tries counted are the lines this step itself has read and had refused,
\* fewer than max_tries; a step aborts only once it has itself read
\* max_tries lines; and on entering a step the counter is at its start and
\* no line counts against it, however many the steps before have used up.
C13_RetryCounterPerStep ==
    /\ [](pc \in InputSteps =>
            /\ Running => (num_tries = ReadsHere + 1 /\ ReadsHere < max_tries)
            /\ run = "aborted" => ReadsHere = max_tries)
    /\ [][ pc' # pc => (num_tries' = 1 /\ ReadsHere' = 0) ]_vars

\* the temperature step took its three attempts; the top_p step starts anew
C13_Witness ==
    /\ pc = "top_p"
    /\ Running
    /\ last = "temperature"
    /\ max_tries = 3
    /\ reads = 3
    /\ num_tries = 1
    /\ self._temperature # None

\* C14 (as amended): the model step has no default.  An empty line goes
\* through validation like any other line that is no integer: nothing is
\* stored, it is counted as an invalid try with the message "Choose value
\* between 1 and 4.", and on the max_tries-th try it ends the run.
EmptyLineAtModelPrompt ==
    pc = "model" /\ Running /\ vars' # vars /\ input_value' = <<>>

C14_EmptyLineIsInvalidTry ==
    [][ EmptyLineAtModelPrompt =>
            /\ pc' = pc
            /\ self' = self
            /\ self'._model = None
            /\ evald' = {"type"}
            /\ IF num_tries < max_tries
               THEN /\ run' = "running"
                    /\ num_tries' = num_tries + 1
                    /\ out'[Len(out')] = Msg("Choose value between 1 and 4.", <<>>, "red")
               ELSE /\ run' = "aborted"
                    /\ exit_status' = 1
                    /\ out'[Len(out')] = Aborted ]_vars

\* two lines, the second one empty, have been refused at the model prompt
C14_Witness ==
    /\ pc = "model"
    /\ Running
    /\ last = "model"
    /\ input_value = <<>>
    /\ reads = 2
    /\ num_tries = 3
    /\ self._model = None
    /\ out = <<Msg("Choose value between 1 and 4.", <<>>, "red")>>

\* C14 as stated: an empty line at the model prompt accepts a default
\* model without validation and is not counted as an invalid try.
C14_EmptyLineAcceptsDefaultModel ==
    [][ EmptyLineAtModelPrompt =>
            /\ pc' = NextStep(pc)
            /\ run' = "running"
            /\ \E i \in 1..4 : self'._model = PyStr(FixedModelList[i])
            /\ evald' = {} ]_vars

\* C15: in every state the in-memory credential is unset, or it is the key
\* entered last and the check of that key, the last one made, returned
\* valid; so the credential file, once written, holds a key whose check
\* returned valid, and the key of a check that failed is never kept.
C15_CredentialIsValidatedKey ==
    /\ self._api_key # None =>
          /\ self._api_key = PyStr(key)
          /\ key \in Keys
          /\ probe = "valid"
    /\ probe # "valid" => self._api_key = None
    /\ "key" \in written => (key_file = PyStr(key) /\ probe = "valid")
    /\ "key" \notin written => key_file \in {None, OldKey}

\* a key failed the check, then the key sk2 passed it and is kept
C15_Witness ==
    /\ pc = "model"
    /\ last = "api_key"
    /\ probes = 2
    /\ probe = "valid"
    /\ key = <<"s", "k", "2">>
    /\ self._api_key = PyStr(<<"s", "k", "2">>)

\* C16: in every state each of the seven in-memory fields is unset or a
\* value of its documented domain: the model one of the four identifiers,
\* num_answers and max_tokens integers above 0, temperature and top_p
\* floats in [0.0, 1.0], both penalties floats in [-2.0, 2.0]; and once the
\* configuration file is written all seven are set, in memory and in the
\* document.
UnsetOr(v, inDomain) == v = None \/ inDomain

PositiveInteger(v) == v.t = "int" /\ v.v > 0

FloatBetween(v, low, high) ==
    v.t = "float" /\ low * Pow10(v.e) <= v.m /\ v.m <= high * Pow10(v.e)

ConfigFields == DOMAIN self \ {"_api_key"}

C16_ConfigurationInDomain ==
    /\ UnsetOr(self._model, \E i \in 1..4 : self._model = PyStr(FixedModelList[i]))
    /\ UnsetOr(self._num_answers, PositiveInteger(self._num_answers))
    /\ UnsetOr(self._max_tokens, PositiveInteger(self._max_tokens))
    /\ UnsetOr(self._temperature, FloatBetween(self._temperature, 0, 1))
    /\ UnsetOr(self._top_p, FloatBetween(self._top_p, 0, 1))
    /\ UnsetOr(self._frequency_penalty, FloatBetween(self._frequency_penalty, -2, 2))
    /\ UnsetOr(self._presence_penalty, FloatBetween(self._presence_penalty, -2, 2))
    /\ Cardinality(ConfigFields) = 7
    /\ "config" \in written =>
          /\ \A f \in ConfigFields : self[f] # None
          /\ \A k \in SevenKeys : yaml_load(config_file.lines)[k] # None

\* a written configuration with values on and inside the limits
C16_Witness ==
    /\ "config" \in written
    /\ self._num_answers = PyInt(1)
    /\ self._max_tokens = PyInt(5)
    /\ self._temperature = PyFloat(1, 0)
    /\ self._top_p = PyFloat(0, 0)
    /\ self._frequency_penalty = PyFloat(15, 1)
    /\ self._presence_penalty = PyFloat(1, 0)

\* C17: for every max_tries >= 1 each step reads at most max_tries lines
\* and the credential step makes at most max_tries remote checks, the
\* counter loops and the for loops alike; a run that is not over can take
\* a step, and a run that is over has written both files or has ended in
\* the abort state.
BothFilesWritten == run = "returned" /\ written = {"key", "config"}

AbortState == run = "aborted" /\ out[Len(out)] = Aborted

C17_BoundedAndTerminating ==
    /\ max_tries >= 1
    /\ reads <= max_tries
    /\ probes <= max_tries
    /\ ReadsHere <= max_tries
    /\ ProbesHere <= max_tries
    /\ Running => ENABLED Next
    /\ ~Running => (BothFilesWritten \/ AbortState)

====
